---- MODULE Spec2Model ----
(***************************************************************************)
(* Model of LeagueManager (src/cubesocietybot.py): the standings store,    *)
(* its four mutating operations, the standings() query and the greedy      *)
(* Swiss pairing pass.                                                     *)
(*                                                                         *)
(* Player identifiers are the non-empty strings str(user.id); they are     *)
(* modelled as the naturals 1..NumPlayers, whose order < stands for the    *)
(* string order Python's sorted() uses on the identifiers.  None is 0.     *)
(* A Python dict is an insertion-ordered mapping: `keys` is the insertion  *)
(* order and `data` the mapping itself.  The opponents field is a Python   *)
(* list and is modelled as a sequence.                                     *)
(***************************************************************************)
EXTENDS Naturals, Integers, Sequences, FiniteSets, TLC

\* ---------------------------------------------------------------- bounds
NumPlayers == 3
MaxPoints == 6
MaxOpponents == 2
MaxTotalPoints == 3

\* ------------------------------------------------------- program constants
\* self.add_points(bye, 3)
ByePoints == 3

Players == 1..NumPlayers
None == 0
\* the amounts add_points is called with: a win is worth what a bye is
Amounts == {ByePoints}

VARIABLES
    data,       \* self.data: identifier -> record
    keys,       \* insertion order of self.data
    disk,       \* the JSON document last written to league.json
    writes,     \* the documents the last call wrote, in order
    pre,        \* self.data at the start of the last call
    op,         \* the last call
    arg,        \* its user_id argument (None when it takes none)
    returned,   \* the boolean it returned (add_player, remove_player)
    result,     \* the list swiss_pairings returned
    table,      \* the list standings() returned
    twinResult, \* what a second league holding the same mapping returned
    twinData,   \* and the mapping that second league ended with
    emitted,    \* every pair ever returned as a match
    played,     \* the pairs returned since neither member was last removed
    peak        \* the highest points ever recorded under each identifier,
                \* a history kept by SpecSeason alone

vars == <<data, keys, disk, writes, pre, op, arg, returned, result, table,
          twinResult, twinData, emitted, played, peak>>

\* ---------------------------------------------------------------- helpers
NewRecord == [points |-> 0, opponents |-> <<>>, received_bye |-> FALSE]

InList(x, list) == \E k \in 1..Len(list) : list[k] = x

Remove(seq, x) == SelectSeq(seq, LAMBDA e : e # x)

Min(S) == CHOOSE m \in S : \A k \in S : m <= k

\* the unordered pairs of a returned list that are matches
Matches(pairings) ==
    {{pairings[k][1], pairings[k][2]} :
        k \in {m \in 1..Len(pairings) : pairings[m][2] # None}}

Perms(S) ==
    {s \in [1..Cardinality(S) -> S] :
        \A i, j \in 1..Cardinality(S) : i # j => s[i] # s[j]}

\* ------------------------------------------------------------- standings
\* a sort key without the identifier: key=lambda x: -x[1]["points"]
KeyLess_PointsOnly(d, a, b) == d[a].points > d[b].points

\* a sort key without the minus sign: key=lambda x: (x[1]["points"], x[0])
KeyLess_Ascending(d, a, b) ==
    \/ d[a].points < d[b].points
    \/ d[a].points = d[b].points /\ a < b

\* key=lambda x: (-x[1]["points"], x[0]);  KeyLess(d, a, b) is key(a) < key(b)
KeyLess(d, a, b) ==
    \/ d[a].points > d[b].points
    \/ d[a].points = d[b].points /\ a < b

\* no sort at all: the items in insertion order
InsertSorted_Unsorted(d, sorted, x) == Append(sorted, x)

\* sorted() is stable: an element goes before the first one whose key is
\* strictly greater, and after every element of equal key that precedes it
InsertSorted(d, sorted, x) ==
    LET later == {k \in 1..Len(sorted) : KeyLess(d, x, sorted[k])}
        at == IF later = {} THEN Len(sorted) + 1 ELSE Min(later)
    IN  SubSeq(sorted, 1, at - 1) \o <<x>> \o SubSeq(sorted, at, Len(sorted))

RECURSIVE SortFrom(_, _, _, _)
SortFrom(d, ks, k, sorted) ==
    IF k > Len(ks) THEN sorted
    ELSE SortFrom(d, ks, k + 1, InsertSorted(d, sorted, ks[k]))

\* the identifiers of standings(), in order
StandingsIds(ks, d) == SortFrom(d, ks, 1, <<>>)

\* standings(): the (identifier, record) tuples
standings(ks, d) ==
    LET ids == StandingsIds(ks, d)
    IN  [k \in 1..Len(ids) |-> <<ids[k], d[ids[k]]>>]

\* ---------------------------------------------------------- swiss_pairings
\* an inner loop that never looks at p1's opponents
FirstOpponent_NoHistory(players, i, used, d) ==
    LET cand == {j \in (i + 1)..Len(players) : players[j] \notin used}
    IN  IF cand = {} THEN None ELSE players[Min(cand)]

\* an inner loop that starts at p1 itself: range(i, len(players))
FirstOpponent_FromSelf(players, i, used, d) ==
    LET p1 == players[i]
        cand == {j \in i..Len(players) :
                    /\ players[j] \notin used
                    /\ ~InList(players[j], d[p1].opponents)}
    IN  IF cand = {} THEN None ELSE players[Min(cand)]

\* an inner loop that tries the next player only: j = i + 1
FirstOpponent_Adjacent(players, i, used, d) ==
    LET p1 == players[i]
        cand == {j \in {i + 1} \cap 1..Len(players) :
                    /\ players[j] \notin used
                    /\ ~InList(players[j], d[p1].opponents)}
    IN  IF cand = {} THEN None ELSE players[Min(cand)]

\* the inner loop: the first unused p2 after position i not among p1's opponents
FirstOpponent(players, i, used, d) ==
    LET p1 == players[i]
        cand == {j \in (i + 1)..Len(players) :
                    /\ players[j] \notin used
                    /\ ~InList(players[j], d[p1].opponents)}
    IN  IF cand = {} THEN None ELSE players[Min(cand)]

\* an outer loop that marks only p1 as used: used.add(p1)
RECURSIVE PairFrom_OpponentFree(_, _, _, _, _)
PairFrom_OpponentFree(players, i, used, pairings, d) ==
    IF i > Len(players)
    THEN [used |-> used, pairings |-> pairings, data |-> d]
    ELSE LET p1 == players[i]
             opponent == FirstOpponent(players, i, used, d)
         IN  IF p1 \in used \/ opponent = None
             THEN PairFrom_OpponentFree(players, i + 1, used, pairings, d)
             ELSE PairFrom_OpponentFree(players, i + 1, used \cup {p1},
                           Append(pairings, <<p1, opponent>>),
                           [d EXCEPT ![p1].opponents = Append(@, opponent),
                                     ![opponent].opponents = Append(@, p1)])

\* an outer loop that records the match in neither opponents list
RECURSIVE PairFrom_NoRecord(_, _, _, _, _)
PairFrom_NoRecord(players, i, used, pairings, d) ==
    IF i > Len(players)
    THEN [used |-> used, pairings |-> pairings, data |-> d]
    ELSE LET p1 == players[i]
             opponent == FirstOpponent(players, i, used, d)
         IN  IF p1 \in used \/ opponent = None
             THEN PairFrom_NoRecord(players, i + 1, used, pairings, d)
             ELSE PairFrom_NoRecord(players, i + 1, used \cup {p1, opponent},
                           Append(pairings, <<p1, opponent>>), d)

\* an outer loop that records the match in p1's opponents only
RECURSIVE PairFrom_OneSided(_, _, _, _, _)
PairFrom_OneSided(players, i, used, pairings, d) ==
    IF i > Len(players)
    THEN [used |-> used, pairings |-> pairings, data |-> d]
    ELSE LET p1 == players[i]
             opponent == FirstOpponent(players, i, used, d)
         IN  IF p1 \in used \/ opponent = None
             THEN PairFrom_OneSided(players, i + 1, used, pairings, d)
             ELSE PairFrom_OneSided(players, i + 1, used \cup {p1, opponent},
                           Append(pairings, <<p1, opponent>>),
                           [d EXCEPT ![p1].opponents = Append(@, opponent)])

\* the outer loop from position i on
RECURSIVE PairFrom(_, _, _, _, _)
PairFrom(players, i, used, pairings, d) ==
    IF i > Len(players)
    THEN [used |-> used, pairings |-> pairings, data |-> d]
    ELSE LET p1 == players[i]
             opponent == FirstOpponent(players, i, used, d)
         IN  IF p1 \in used \/ opponent = None
             THEN PairFrom(players, i + 1, used, pairings, d)
             ELSE PairFrom(players, i + 1, used \cup {p1, opponent},
                           Append(pairings, <<p1, opponent>>),
                           [d EXCEPT ![p1].opponents = Append(@, opponent),
                                     ![opponent].opponents = Append(@, p1)])

\* leftovers = [p for p, _ in players if p not in used]
Leftovers(players, used) == SelectSeq(players, LAMBDA p : p \notin used)

\* the bye awarded to leftovers[-1]
ByePlayer_Last(leftovers) == leftovers[Len(leftovers)]

\* the bye awarded to leftovers[0]
ByePlayer(leftovers) == leftovers[1]

\* a tail that awards the bye only to a single leftover: if len(leftovers) == 1
Finish_SingleLeftover(scan, leftovers) ==
    IF Len(leftovers) # 1
    THEN [pairings |-> scan.pairings, data |-> scan.data,
          writes |-> <<scan.data>>]
    ELSE LET bye == ByePlayer(leftovers)
             awarded == [scan.data EXCEPT ![bye].points = @ + ByePoints]
             flagged == [awarded EXCEPT ![bye].received_bye = TRUE]
         IN  [pairings |-> Append(scan.pairings, <<bye, None>>),
              data |-> flagged,
              writes |-> <<awarded, flagged>>]

\* a tail that awards the points to every leftover
Finish_AwardAll(scan, leftovers) ==
    IF leftovers = <<>>
    THEN [pairings |-> scan.pairings, data |-> scan.data,
          writes |-> <<scan.data>>]
    ELSE LET bye == ByePlayer(leftovers)
             awarded == [p \in DOMAIN scan.data |->
                            IF InList(p, leftovers)
                            THEN [scan.data[p] EXCEPT !.points = @ + ByePoints]
                            ELSE scan.data[p]]
             flagged == [awarded EXCEPT ![bye].received_bye = TRUE]
         IN  [pairings |-> Append(scan.pairings, <<bye, None>>),
              data |-> flagged,
              writes |-> <<awarded, flagged>>]

\* a tail without the final self.save()
Finish_NoFinalSave(scan, leftovers) ==
    IF leftovers = <<>>
    THEN [pairings |-> scan.pairings, data |-> scan.data, writes |-> <<>>]
    ELSE LET bye == ByePlayer(leftovers)
             awarded == [scan.data EXCEPT ![bye].points = @ + ByePoints]
             flagged == [awarded EXCEPT ![bye].received_bye = TRUE]
         IN  [pairings |-> Append(scan.pairings, <<bye, None>>),
              data |-> flagged,
              writes |-> <<awarded>>]

\* a tail whose bye sets the points instead of adding to them
Finish_ByeSetsPoints(scan, leftovers) ==
    IF leftovers = <<>>
    THEN [pairings |-> scan.pairings, data |-> scan.data,
          writes |-> <<scan.data>>]
    ELSE LET bye == ByePlayer(leftovers)
             awarded == [scan.data EXCEPT ![bye].points = ByePoints]
             flagged == [awarded EXCEPT ![bye].received_bye = TRUE]
         IN  [pairings |-> Append(scan.pairings, <<bye, None>>),
              data |-> flagged,
              writes |-> <<awarded, flagged>>]

\* the tail of the call: the bye for leftovers[0], whose points add_points
\* raises and saves before received_bye is set, and the final save
Finish(scan, leftovers) ==
    IF leftovers = <<>>
    THEN [pairings |-> scan.pairings, data |-> scan.data,
          writes |-> <<scan.data>>]
    ELSE LET bye == ByePlayer(leftovers)
             awarded == [scan.data EXCEPT ![bye].points = @ + ByePoints]
             flagged == [awarded EXCEPT ![bye].received_bye = TRUE]
         IN  [pairings |-> Append(scan.pairings, <<bye, None>>),
              data |-> flagged,
              writes |-> <<awarded, flagged>>]

\* the whole call on a league of insertion order ks and mapping d:
\* the returned list, the final mapping and the mappings written to disk
SwissPairings(ks, d) ==
    LET players == StandingsIds(ks, d)
        scan == PairFrom(players, 1, {}, <<>>, d)
    IN  Finish(scan, Leftovers(players, scan.used))

\* the model keeps points and list lengths within the bounds
WithinBounds(d) ==
    \A p \in DOMAIN d :
        d[p].points <= MaxPoints /\ Len(d[p].opponents) <= MaxOpponents

\* ------------------------------------------------------------ persistence
\* json.dump of a record: the object's members, booleans as true / false
DumpRecord(r) ==
    [points |-> r.points, opponents |-> r.opponents,
     received_bye |-> IF r.received_bye THEN "true" ELSE "false"]

\* save_json: the members of the document in the dict's insertion order
DumpJson(ks, d) == [k \in 1..Len(ks) |-> <<ks[k], DumpRecord(d[ks[k]])>>]

\* json.load of a record
LoadRecord(m) ==
    [points |-> m.points, opponents |-> m.opponents,
     received_bye |-> (m.received_bye = "true")]

\* load_json: the dict of a document; a missing file gives the default {}
LoadJson(doc) ==
    [id \in {doc[k][1] : k \in 1..Len(doc)} |->
        LoadRecord(doc[CHOOSE k \in 1..Len(doc) :
                          /\ doc[k][1] = id
                          /\ \A m \in 1..Len(doc) : doc[m][1] = id => m <= k][2])]

\* the insertion order of the dict load_json returns
LoadKeys(doc) == [k \in 1..Len(doc) |-> doc[k][1]]

\* the documents written when the mappings ws are saved one after another
Saves(ks, ws) == [k \in 1..Len(ws) |-> DumpJson(ks, ws[k])]

\* the file after the writes ws
FileAfter(file, ws) == IF ws = <<>> THEN file ELSE ws[Len(ws)]

\* ------------------------------------------------------------------ state
Init ==
    /\ data = <<>>
    /\ keys = <<>>
    /\ disk = <<>>
    /\ writes = <<>>
    /\ pre = <<>>
    /\ op = "init"
    /\ arg = None
    /\ returned = FALSE
    /\ result = <<>>
    /\ table = <<>>
    /\ twinResult = <<>>
    /\ twinData = <<>>
    /\ emitted = {}
    /\ played = {}
    /\ peak = <<>>

\* the mapping with identifier id bound to record r
Put(d, id, r) ==
    [p \in DOMAIN d \cup {id} |-> IF p = id THEN r ELSE d[p]]

\* a removal that also takes id out of every other opponents list
Delete_Scrub(d, id) ==
    [p \in DOMAIN d \ {id} |->
        [d[p] EXCEPT !.opponents = SelectSeq(@, LAMBDA e : e # id)]]

\* the highest points on record once the mapping is d
PeakWith(pk, d) ==
    [p \in DOMAIN pk \cup DOMAIN d |->
        IF p \notin DOMAIN pk THEN d[p].points
        ELSE IF p \in DOMAIN d /\ d[p].points > pk[p] THEN d[p].points
        ELSE pk[p]]

\* the mapping without identifier id
Delete(d, id) == [p \in DOMAIN d \ {id} |-> d[p]]

\* an add_player without the presence test: the record is always reset
AddPlayerTo_Overwrite(d, user_id) == Put(d, user_id, NewRecord)

\* add_player on mapping d: a record is created only for an absent identifier
AddPlayerTo(d, user_id) ==
    IF user_id \in DOMAIN d THEN d ELSE Put(d, user_id, NewRecord)

\* the insertion order after a store to self.data[user_id]
KeysWith(ks, user_id) ==
    IF InList(user_id, ks) THEN ks ELSE Append(ks, user_id)

AddPlayer(user_id) ==
    /\ pre' = data
    /\ op' = "add_player"
    /\ arg' = user_id
    /\ data' = AddPlayerTo(data, user_id)
    /\ keys' = KeysWith(keys, user_id)
    /\ writes' = IF user_id \in DOMAIN data THEN <<>>
                  ELSE Saves(keys', <<data'>>)
    /\ disk' = FileAfter(disk, writes')
    /\ returned' = (user_id \notin DOMAIN data)
    /\ result' = <<>>
    /\ table' = <<>>
    /\ twinResult' = <<>>
    /\ twinData' = <<>>
    /\ UNCHANGED <<emitted, played>>

RemovePlayer(user_id) ==
    /\ pre' = data
    /\ op' = "remove_player"
    /\ arg' = user_id
    /\ IF user_id \in DOMAIN data
       THEN /\ data' = Delete(data, user_id)
            /\ keys' = Remove(keys, user_id)
            /\ writes' = Saves(keys', <<data'>>)
            /\ disk' = FileAfter(disk, writes')
            /\ returned' = TRUE
            /\ played' = {m \in played : user_id \notin m}
       ELSE /\ returned' = FALSE
            /\ writes' = <<>>
            /\ UNCHANGED <<data, keys, disk, played>>
    /\ result' = <<>>
    /\ table' = <<>>
    /\ twinResult' = <<>>
    /\ twinData' = <<>>
    /\ UNCHANGED emitted

\* an add_points that assigns: self.data[user_id]["points"] = pts
AddPointsTo_Assign(d, user_id, pts) ==
    LET created == AddPlayerTo(d, user_id)
    IN  [created EXCEPT ![user_id].points = pts]

\* add_points on mapping d: the implicit add_player, then points += pts
AddPointsTo(d, user_id, pts) ==
    LET created == AddPlayerTo(d, user_id)
    IN  [created EXCEPT ![user_id].points = @ + pts]

\* the mappings add_points saves: add_player's for an absent identifier,
\* then its own
AddPointsWrites(d, user_id, pts) ==
    IF user_id \in DOMAIN d THEN <<AddPointsTo(d, user_id, pts)>>
    ELSE <<AddPlayerTo(d, user_id), AddPointsTo(d, user_id, pts)>>

AddPoints(user_id, pts) ==
    /\ WithinBounds(AddPointsTo(data, user_id, pts))
    /\ pre' = data
    /\ op' = "add_points"
    /\ arg' = user_id
    /\ data' = AddPointsTo(data, user_id, pts)
    /\ keys' = KeysWith(keys, user_id)
    /\ writes' = Saves(keys', AddPointsWrites(data, user_id, pts))
    /\ disk' = FileAfter(disk, writes')
    /\ returned' = FALSE
    /\ result' = <<>>
    /\ table' = <<>>
    /\ twinResult' = <<>>
    /\ twinData' = <<>>
    /\ UNCHANGED <<emitted, played>>

Standings ==
    /\ pre' = data
    /\ op' = "standings"
    /\ arg' = None
    /\ table' = standings(keys, data)
    /\ returned' = FALSE
    /\ result' = <<>>
    /\ twinResult' = <<>>
    /\ twinData' = <<>>
    /\ writes' = <<>>
    /\ UNCHANGED <<data, keys, disk, emitted, played>>

Swiss ==
    LET call == SwissPairings(keys, data)
    IN  /\ WithinBounds(call.data)
        /\ pre' = data
            /\ op' = "swiss_pairings"
        /\ arg' = None
        /\ data' = call.data
            /\ writes' = Saves(keys, call.writes)
        /\ disk' = FileAfter(disk, writes')
        /\ result' = call.pairings
        /\ \E order \in Perms(DOMAIN data) :
              LET twin == SwissPairings(order, data)
              IN  /\ twinResult' = twin.pairings
                  /\ twinData' = twin.data
        /\ emitted' = emitted \cup Matches(call.pairings)
        /\ played' = played \cup Matches(call.pairings)
        /\ returned' = FALSE
        /\ table' = <<>>
        /\ UNCHANGED keys

Next ==
    \/ \E user_id \in Players : AddPlayer(user_id) /\ UNCHANGED peak
    \/ \E user_id \in Players : RemovePlayer(user_id) /\ UNCHANGED peak
    \/ \E user_id \in Players : \E pts \in Amounts :
          AddPoints(user_id, pts) /\ UNCHANGED peak
    \/ Standings /\ UNCHANGED peak
    \/ Swiss /\ UNCHANGED peak

Spec == Init /\ [][Next]_vars

\* a season of a smaller league, with the highest points of every identifier
\* kept on record across removals
SeasonPlayers == 1..(NumPlayers - 1)

NextSeason ==
    \/ \E user_id \in SeasonPlayers :
          AddPlayer(user_id) /\ peak' = PeakWith(peak, data')
    \/ \E user_id \in SeasonPlayers :
          RemovePlayer(user_id) /\ peak' = PeakWith(peak, data')
    \/ \E user_id \in SeasonPlayers : \E pts \in Amounts :
          AddPoints(user_id, pts) /\ peak' = PeakWith(peak, data')
    \/ Swiss /\ peak' = PeakWith(peak, data')

SpecSeason == Init /\ [][NextSeason]_vars

\* a league nobody is removed from, of one player more and of few points
MorePlayers == 1..(NumPlayers + 1)

RECURSIVE PointsOf(_, _)
PointsOf(d, ids) ==
    IF ids = {} THEN 0
    ELSE LET p == CHOOSE q \in ids : TRUE
         IN  d[p].points + PointsOf(d, ids \ {p})

FewPoints(d) == PointsOf(d, DOMAIN d) <= MaxTotalPoints

NextNoRemove ==
    \/ \E user_id \in MorePlayers : AddPlayer(user_id) /\ UNCHANGED peak
    \/ \E user_id \in MorePlayers : \E pts \in Amounts :
          AddPoints(user_id, pts) /\ FewPoints(data') /\ UNCHANGED peak
    \/ Swiss /\ FewPoints(data') /\ UNCHANGED peak

SpecNoRemove == Init /\ [][NextNoRemove]_vars

\* ------------------------------------------------------------ properties
\* the (descending points, ascending identifier) order of mapping d, stated
\* as the order itself and not as the result of a sort
Ranked(d) ==
    CHOOSE s \in Perms(DOMAIN d) :
        \A i, j \in 1..Len(s) :
            i < j => \/ d[s[i]].points > d[s[j]].points
                     \/ d[s[i]].points = d[s[j]].points /\ s[i] < s[j]

\* the positions of a returned list that are matches, and those that are byes
MatchAt(pairings) == {k \in 1..Len(pairings) : pairings[k][2] # None}
ByeAt(pairings) == {k \in 1..Len(pairings) : pairings[k][2] = None}

\* the identifiers a returned list names as a member of a match
Matched(pairings) == UNION Matches(pairings)

\* the players of mapping d no match of the list names, in ranked order
Unmatched(d, pairings) ==
    SelectSeq(Ranked(d), LAMBDA p : p \notin Matched(pairings))

Swissed == op = "swiss_pairings"

\* C1: every pair (p1, p2) one swiss_pairings call returns has p2 outside
\* p1's opponents as they were immediately before the call
OpponentAvoidance ==
    Swissed =>
        \A k \in MatchAt(result) :
            ~InList(result[k][2], pre[result[k][1]].opponents)

\* C1 witness: player 1 had already faced player 2, and the call paired 1
\* with the next player in order, 3, leaving 2 the bye
OpponentAvoidanceWitness ==
    /\ Swissed
    /\ DOMAIN pre = {1, 2, 3}
    /\ InList(2, pre[1].opponents)
    /\ result = << <<1, 3>>, <<2, None>> >>

\* C2 as stated: no pair a swiss_pairings call returns was returned by an
\* earlier call, whatever add_player, remove_player and add_points calls
\* happened in between
NoRepeatMatchups ==
    [][op' = "swiss_pairings" => Matches(result') \cap emitted = {}]_vars

\* C2 amended: no pair a swiss_pairings call returns was returned by an
\* earlier call since which neither of its two players has been removed
NoRepeatWhileBothStay ==
    [][op' = "swiss_pairings" => Matches(result') \cap played = {}]_vars

\* C2 witness: a call on a league holding a pair that had already met, both
\* players still present with each other in their opponents, which returned
\* a match and not that pair
NoRepeatWitness ==
    /\ Swissed
    /\ Matches(result) # {}
    /\ \E m \in played :
          /\ m \subseteq DOMAIN pre
          /\ \A p \in m : \E q \in m : InList(q, pre[p].opponents)
          /\ m \notin Matches(result)

\* C3: in one returned list no identifier occurs twice, as first or second
\* member of a pair or as the bye, and each is a player of the standings
EachPlayerOnce ==
    Swissed =>
        /\ \A k \in 1..Len(result) :
              /\ result[k][1] \in DOMAIN pre
              /\ result[k][2] \in DOMAIN pre \cup {None}
              /\ result[k][1] # result[k][2]
        /\ \A k, m \in 1..Len(result) :
              k # m => /\ result[k][1] # result[m][1]
                       /\ result[k][1] # result[m][2]
                       /\ result[k][2] = None \/ result[k][2] # result[m][2]

\* C3 witness: a call on three players that returned a match and a bye
EachPlayerOnceWitness ==
    /\ Swissed
    /\ Cardinality(DOMAIN pre) = 3
    /\ Len(result) = 2
    /\ MatchAt(result) = {1}
    /\ ByeAt(result) = {2}

\* the list C4 expects for the ranked order s: (s1,s2), (s3,s4), ..., then
\* (sn, None) when n is odd
TopDownPairs(s) ==
    [k \in 1..((Len(s) + 1) \div 2) |->
        IF 2 * k <= Len(s) THEN <<s[2 * k - 1], s[2 * k]>>
        ELSE <<s[Len(s)], None>>]

NoHistory(d) == \A p \in DOMAIN d : d[p].opponents = <<>>

\* C4: on n >= 0 players whose opponents are all empty, swiss_pairings returns
\* the ceil(n/2) entries (s1,s2), (s3,s4), ... of the ranked order, with the
\* bye (sn, None) last iff n is odd
NoHistoryPairsTopDown ==
    (Swissed /\ NoHistory(pre)) =>
        /\ result = TopDownPairs(Ranked(pre))
        /\ 2 * Len(result) \in {Cardinality(DOMAIN pre), Cardinality(DOMAIN pre) + 1}
        /\ (ByeAt(result) # {}) <=> (Cardinality(DOMAIN pre) % 2 = 1)

\* C4 witness: three players without history and of different rank than their
\* identifiers, the top two paired and the third given the bye
NoHistoryWitness ==
    /\ Swissed
    /\ NoHistory(pre)
    /\ Cardinality(DOMAIN pre) = 3
    /\ Ranked(pre) = <<3, 1, 2>>
    /\ result = << <<3, 1>>, <<2, None>> >>

\* C5: a swiss_pairings call returns at most one bye, and exactly one when
\* the number of players is odd
ByeCount ==
    Swissed =>
        /\ Cardinality(ByeAt(result)) <= 1
        /\ Cardinality(DOMAIN pre) % 2 = 1 => Cardinality(ByeAt(result)) = 1

\* C5 witness: three players who had all met each other: nobody is matched,
\* and the call returns one bye only
ByeCountWitness ==
    /\ Swissed
    /\ Cardinality(DOMAIN pre) = 3
    /\ Len(Unmatched(pre, result)) = 3
    /\ Cardinality(ByeAt(result)) = 1

\* C6: when a call leaves players unmatched, the first of them in ranked order
\* gains exactly 3 points and has received_bye set; every other player keeps
\* points and received_bye, and the other unmatched players keep every field
ByeEffectAndFrame ==
    (Swissed /\ Unmatched(pre, result) # <<>>) =>
        LET left == Unmatched(pre, result)
            bye == left[1]
        IN  /\ DOMAIN data = DOMAIN pre
            /\ data[bye].points = pre[bye].points + 3
            /\ data[bye].received_bye = TRUE
            /\ \A p \in DOMAIN pre \ {bye} :
                  /\ data[p].points = pre[p].points
                  /\ data[p].received_bye = pre[p].received_bye
            /\ \A k \in 2..Len(left) : data[left[k]] = pre[left[k]]

\* C6 witness: two players left unmatched, the first of whom gets the bye
\* while the second already holds a bye flag and points that the call keeps
ByeEffectWitness ==
    /\ Swissed
    /\ Len(Unmatched(pre, result)) >= 2
    /\ LET left == Unmatched(pre, result)
       IN  /\ pre[left[2]].received_bye
           /\ pre[left[2]].points > 0
           /\ ~pre[left[1]].received_bye

LastOf(s) == s[Len(s)]

\* C7 as stated: with an odd number of players the bye goes to the last in
\* ranked order of the players the call could not match
ByeToLowestUnmatched ==
    (Swissed /\ Cardinality(DOMAIN pre) % 2 = 1) =>
        \A k \in ByeAt(result) : result[k][1] = LastOf(Unmatched(pre, result))

\* C7 amended: with an odd number of players the bye goes to the first in
\* ranked order of the players the call could not match
ByeToHighestUnmatched ==
    (Swissed /\ Cardinality(DOMAIN pre) % 2 = 1) =>
        /\ ByeAt(result) # {}
        /\ \A k \in ByeAt(result) : result[k][1] = Unmatched(pre, result)[1]

\* C7 witness: an odd league in which three players stay unmatched and the
\* bye goes to the first of them, not the last
ByeToHighestWitness ==
    /\ Swissed
    /\ Cardinality(DOMAIN pre) % 2 = 1
    /\ Len(Unmatched(pre, result)) = 3
    /\ result = << <<Unmatched(pre, result)[1], None>> >>
    /\ result # << <<LastOf(Unmatched(pre, result)), None>> >>

\* C8: a second league holding the same mapping, whatever the order its
\* records were inserted in, returns the same list from swiss_pairings and
\* ends in the same mapping
Determinism ==
    Swissed => twinResult = result /\ twinData = data

\* C8 witness: a call on three players of equal points, inserted in another
\* order than the one they are ranked in, that returned a match and a bye
DeterminismWitness ==
    /\ Swissed
    /\ Cardinality(DOMAIN pre) = 3
    /\ \A p, q \in DOMAIN pre : pre[p].points = pre[q].points
    /\ keys # Ranked(pre)
    /\ Len(result) = 2
    /\ twinResult = result

\* C9: standings() returns each player of the store once with its record, in
\* descending points and ascending identifier among equals; it changes no
\* record, and a second call right after returns the same list
StandingsSortedAndPure ==
    [][op' = "standings" =>
          /\ Len(table') = Cardinality(DOMAIN data)
          /\ {table'[k][1] : k \in 1..Len(table')} = DOMAIN data
          /\ \A k \in 1..Len(table') : table'[k][2] = data[table'[k][1]]
          /\ \A k, m \in 1..Len(table') :
                k < m =>
                    \/ table'[k][2].points > table'[m][2].points
                    \/ /\ table'[k][2].points = table'[m][2].points
                       /\ table'[k][1] < table'[m][1]
          /\ data' = data /\ keys' = keys /\ disk' = disk
          /\ op = "standings" => table' = table]_vars

\* C9 witness: a table of three players, two of them tied, whose insertion
\* order is not the ranked one
StandingsWitness ==
    /\ op = "standings"
    /\ Len(table) = 3
    /\ table[1][2].points > table[2][2].points
    /\ table[2][2].points = table[3][2].points
    /\ keys # <<table[1][1], table[2][1], table[3][1]>>

\* C10: add_player on a present identifier returns False and changes nothing;
\* on an absent one it returns True and adds the record {points 0, no
\* opponents, received_bye false}, every other record unchanged
AddPlayerContract ==
    [][op' = "add_player" =>
          IF arg' \in DOMAIN data
          THEN /\ returned' = FALSE
               /\ data' = data /\ keys' = keys /\ disk' = disk
          ELSE /\ returned' = TRUE
               /\ DOMAIN data' = DOMAIN data \cup {arg'}
               /\ data'[arg'].points = 0
               /\ data'[arg'].opponents = <<>>
               /\ data'[arg'].received_bye = FALSE
               /\ \A p \in DOMAIN data : data'[p] = data[p]]_vars

\* C10 witness: add_player refused a player who holds points, opponents and
\* a bye, all of them kept
AddPlayerWitness ==
    /\ op = "add_player"
    /\ returned = FALSE
    /\ arg \in DOMAIN pre
    /\ pre[arg].points > 0
    /\ pre[arg].opponents # <<>>
    /\ pre[arg].received_bye
    /\ data = pre

\* C11: remove_player returns True iff the identifier was present; afterwards
\* it is absent and every other record, occurrences of the identifier in its
\* opponents included, is unchanged; on an absent identifier nothing changes
RemovePlayerContract ==
    [][op' = "remove_player" =>
          /\ returned' = (arg' \in DOMAIN data)
          /\ DOMAIN data' = DOMAIN data \ {arg'}
          /\ \A p \in DOMAIN data' : data'[p] = data[p]
          /\ arg' \notin DOMAIN data =>
                data' = data /\ keys' = keys /\ disk' = disk]_vars

\* C11 witness: a removed player whose identifier stays in the opponents of
\* a player who remains
RemovePlayerWitness ==
    /\ op = "remove_player"
    /\ returned = TRUE
    /\ arg \in DOMAIN pre
    /\ arg \notin DOMAIN data
    /\ \E p \in DOMAIN data : InList(arg, data[p].opponents)

\* C12: add_points on an absent identifier ends with points = amount, no
\* opponents and received_bye false; on a present one it adds exactly amount
\* to points and changes nothing else of that record; other records are kept
AddPointsContract ==
    [][op' = "add_points" =>
          /\ DOMAIN data' = DOMAIN data \cup {arg'}
          /\ \A p \in DOMAIN data \ {arg'} : data'[p] = data[p]
          /\ \E pts \in Amounts :
                IF arg' \in DOMAIN data
                THEN /\ data'[arg'].points = data[arg'].points + pts
                     /\ data'[arg'].opponents = data[arg'].opponents
                     /\ data'[arg'].received_bye = data[arg'].received_bye
                ELSE /\ data'[arg'].points = pts
                     /\ data'[arg'].opponents = <<>>
                     /\ data'[arg'].received_bye = FALSE]_vars

\* C12 witness: points added to a player who holds points, an opponent and a
\* bye, beside another player
AddPointsWitness ==
    /\ op = "add_points"
    /\ arg \in DOMAIN pre
    /\ pre[arg].points > 0
    /\ pre[arg].opponents # <<>>
    /\ pre[arg].received_bye
    /\ data[arg].points = pre[arg].points + 3
    /\ Cardinality(DOMAIN data) >= 2

\* C13: no identifier occurs more than once in any opponents list
NoDuplicateOpponents ==
    \A p \in DOMAIN data :
        \A i, j \in 1..Len(data[p].opponents) :
            i # j => data[p].opponents[i] # data[p].opponents[j]

\* C14: no opponents list holds its own player's identifier
NoSelfOpponent ==
    \A p \in DOMAIN data : ~InList(p, data[p].opponents)

\* C14 witness: a call that matched two players, each recorded in the
\* other's opponents and not in its own
NoSelfOpponentWitness ==
    /\ Swissed
    /\ \E k \in MatchAt(result) :
          /\ InList(result[k][2], data[result[k][1]].opponents)
          /\ InList(result[k][1], data[result[k][2]].opponents)
          /\ ~InList(result[k][1], data[result[k][1]].opponents)

Mutating == {"add_player", "remove_player", "add_points", "swiss_pairings"}

\* C16: after a completed add_player, remove_player, add_points or
\* swiss_pairings call that changed the standings, reloading league.json gives
\* the in-memory mapping, in the same order
PersistedEqualsMemory ==
    (op \in Mutating /\ data # pre) =>
        /\ LoadJson(disk) = data
        /\ LoadKeys(disk) = keys

\* C16 witness: a swiss_pairings call with a match and a bye, whose first
\* write differs from the mapping it ends with and whose last write equals it
PersistedWitness ==
    /\ Swissed
    /\ MatchAt(result) # {}
    /\ ByeAt(result) # {}
    /\ Len(writes) = 2
    /\ LoadJson(writes[1]) # data
    /\ LoadJson(disk) = data

\* C19: swiss_pairings never gives the bye to a player whose received_bye is
\* already true while another player it leaves unmatched has it false
FairBye ==
    Swissed =>
        \A k \in ByeAt(result) :
            pre[result[k][1]].received_bye =>
                \A u \in DOMAIN pre \ Matched(result) : pre[u].received_bye

\* C20: every document written has received_bye true for each player whose
\* points in it include a bye award, the write add_points makes inside
\* swiss_pairings included
ByeConsistentSnapshots ==
    \A k \in 1..Len(writes) :
        LET w == LoadJson(writes[k])
        IN  \A p \in DOMAIN w \cap DOMAIN pre :
                (\/ pre[p].received_bye
                 \/ Swissed /\ w[p].points > pre[p].points)
                    => w[p].received_bye

\* C15 as stated: the points recorded under an identifier are never lower
\* than the points recorded under it in any earlier state
PointsNeverLower ==
    \A id \in DOMAIN data : data[id].points >= peak[id]

\* C15 amended: while an identifier stays in the standings its points never
\* go down from one state to the next, hence not between any two states with
\* no removal of it in between
PointsNeverLowerWhilePresent ==
    [][\A id \in DOMAIN data \cap DOMAIN data' :
          data'[id].points >= data[id].points]_vars

\* C15 witness: a player removed from beside another and added again, whose
\* points were then raised twice, up to the highest on record
PointsWitness ==
    /\ op = "add_points"
    /\ arg \in DOMAIN pre
    /\ pre[arg].points = 3
    /\ data[arg].points = 6
    /\ peak[arg] = 6
    /\ \E p \in DOMAIN data \ {arg} : peak[p] > data[p].points

\* the ways to pair all players of mapping d without a pair in which one has
\* the other among its opponents
PerfectMatchings(d) ==
    LET pairs == {{a, b} : a, b \in DOMAIN d} \ {{a} : a \in DOMAIN d}
    IN  {M \in SUBSET pairs :
            /\ UNION M = DOMAIN d
            /\ 2 * Cardinality(M) = Cardinality(DOMAIN d)
            /\ \A m \in M : \A a, b \in m :
                  a # b => ~InList(b, d[a].opponents)}

\* C17: the greedy pass is no maximum matching.  All it guarantees is that
\* no two players it leaves unmatched could have been paired by the scan, and
\* of those players one gets the bye and the rest nothing; the witness is the
\* state the claim says exists
GreedyNotMaximum ==
    Swissed =>
        LET left == Unmatched(pre, result)
        IN  /\ \A i, j \in 1..Len(left) :
                  i < j => InList(left[j], pre[left[i]].opponents)
            /\ Len(left) >= 2 =>
                  /\ Cardinality(ByeAt(result)) = 1
                  /\ \A k \in 2..Len(left) : data[left[k]] = pre[left[k]]

\* C17 witness: a call on a league that has a perfect matching avoiding all
\* recorded opponents, which leaves two players unmatched: one bye, one dropped
GreedyNotMaximumWitness ==
    /\ Swissed
    /\ PerfectMatchings(pre) # {}
    /\ Len(Unmatched(pre, result)) >= 2
    /\ Cardinality(ByeAt(result)) = 1
    /\ 2 * Cardinality(MatchAt(result)) + 1 < Cardinality(DOMAIN pre)

\* C18: when nobody is removed, b is among a's opponents iff a is among b's,
\* and every identifier among any opponents is a player of the standings
SymmetricHistory ==
    \A a \in DOMAIN data :
        \A k \in 1..Len(data[a].opponents) :
            LET b == data[a].opponents[k]
            IN  /\ b \in DOMAIN data
                /\ InList(a, data[b].opponents)

\* C18 witness: four players after two rounds, each with two opponents
SymmetricHistoryWitness ==
    /\ Swissed
    /\ Cardinality(DOMAIN data) = 4
    /\ \A a \in DOMAIN data : Len(data[a].opponents) = 2

====
